---- MODULE Spec2Model ----
(***************************************************************************)
(* A model of the Bandcamp provider for MusicAssistant:                    *)
(*   - BandcampApiClient (api.py): the authentication flows, the three     *)
(*     cursor-paginated fan listings, the search, the resolution of album  *)
(*     and artist references and the album assembly;                       *)
(*   - BandcampUserIdentity (models.py);                                   *)
(*   - BandcampAPI (helpers.py): the page-scraping search and              *)
(*     stream/track/album operations behind BandcampProvider;              *)
(*   - BandcampProvider (__init__.py): search and browse;                  *)
(*   - the instance routes (bandcamp_instance_routes.py).                  *)
(* Each component has its own specification over the shared variables:     *)
(* SpecPaginate, FairPaginate, SpecAuth, SpecProvider, SpecAlbum,          *)
(* SpecAlbumTwice, SpecHelpers and SpecRoutes.                             *)
(***************************************************************************)
EXTENDS Integers, Sequences, FiniteSets, TLC

VARIABLES
    user_identity,   \* BandcampApiClient.user_identity
    authenticating,  \* BandcampApiClient._authenticating
    auth_lock,       \* BandcampApiClient._auth_lock: 0 when free, else the holding task
    auth_pc,         \* per task: position inside an authenticate_* call
    auth_ret,        \* per task: the value the call returned (read when auth_pc is "done")
    auth_before,     \* per task: user_identity when the call started (history)
    auth_reported,   \* per task: the user data the server reported to the call (history)
    auth_clean,      \* per task: no other call assigned user_identity meanwhile (history)
    cookie_saves,    \* per task: number of save_cookies calls made by the call (history)
    pc_page,         \* position of the running get_*_items call
    endpoint,        \* which of the three listings is running
    fan_id,          \* local fan_id of the running call
    url,             \* local collection_url / wishlist_url / following_url
    offset,          \* local offset (the cursor sent as older_than_token)
    items,           \* local items / artists
    page_result,     \* the list the call returned (read when pc_page is "done")
    requests,        \* the POST requests issued by the running call (history)
    responses,       \* the responses the server gave to them (history)
    prev_outcome,    \* outcome of the previous completed call (history)
    album_call,      \* get_album: the reference and the server's answers of the last call
    album_result,    \* get_album: the value returned by the last call
    album_requests,  \* get_album: the network requests of the last call (history)
    album_again,     \* get_album: the value returned when the call was repeated
    album_failed,    \* an earlier failed resolution: its cause and what it returned (history)
    h_call,          \* BandcampAPI: the operation and the page of the last call
    h_result,        \* BandcampAPI: what the last call returned or raised
    search_call,     \* search: the operation, its arguments and the server's answer
    search_result,   \* search: what the last call returned or raised
    search_requests, \* search: the query requests of the last call (history)
    browse_call,     \* BandcampProvider.browse: the path of the last call
    browse_result,   \* BandcampProvider.browse: the folder returned, or the exception
    browse_api,      \* BandcampProvider.browse: the API operations the call used (history)
    INSTANCE_CONFIGS, \* bandcamp_instance_routes: the stored instance configs, by key
    route_call,      \* bandcamp_instance_routes: the last request
    route_response   \* bandcamp_instance_routes: the status of its response

vars == <<user_identity, authenticating, auth_lock, auth_pc, auth_ret,
          auth_before, auth_reported, auth_clean, cookie_saves,
          pc_page, endpoint, fan_id, url, offset, items, page_result,
          requests, responses, prev_outcome,
          album_call, album_result, album_requests, album_again, album_failed,
          h_call, h_result,
          search_call, search_result, search_requests,
          browse_call, browse_result, browse_api,
          INSTANCE_CONFIGS, route_call, route_response>>

authVars  == <<authenticating, auth_lock, auth_pc, auth_ret, auth_before,
               auth_reported, auth_clean, cookie_saves>>
pageVars  == <<pc_page, endpoint, fan_id, url, offset, items, page_result,
               requests, responses, prev_outcome>>
albumVars == <<album_call, album_result, album_requests, album_again, album_failed>>
helpVars  == <<h_call, h_result>>
provVars  == <<search_call, search_result, search_requests,
               browse_call, browse_result, browse_api>>
routeVars == <<INSTANCE_CONFIGS, route_call, route_response>>

(***************************************************************************)
(* Values                                                                  *)
(***************************************************************************)
\* Python None, and what dict.get() gives for a key the dict does not have
None == "None"

\* Scalars are strings; a JSON number is written as its decimal string, so
\* "0" is the number zero.  Python truthiness of such a value:
Truthy(v) == v \notin {None, "", "0"}

(***************************************************************************)
(* BandcampUserIdentity (models.py)                                        *)
(***************************************************************************)
FanIds == {"7", "8"}

\* What the authentication helper hands back: nothing (None or an empty dict,
\* present = FALSE), or a user-data dict whose fan_id may be missing (None)
\* or a real fan id.
NoData == [present |-> FALSE, fan_id |-> None, username |-> None]
UserDatas ==
    {NoData} \cup [present : {TRUE}, fan_id : {None} \cup FanIds, username : {"alice"}]

\* `if user_data:` / `if not data:`
DataTruthy(data) == data.present

\* BandcampUserIdentity(): the dataclass defaults
DefaultIdentity ==
    [fan_id |-> None, username |-> None, name |-> None, image_id |-> None,
     url |-> None, is_authenticated |-> FALSE]

\* BandcampUserIdentity.from_api_data; the data of the model carries no name,
\* image_id or url key, so data.get() gives None for them.
from_api_data(data) ==
    IF ~DataTruthy(data) THEN DefaultIdentity
    ELSE [fan_id |-> data.fan_id, username |-> data.username, name |-> None,
          image_id |-> None, url |-> None,
          is_authenticated |-> Truthy(data.fan_id)]

(***************************************************************************)
(* The fan listings: get_collection_items, get_wishlist_items and          *)
(* get_followed_artists (api.py).  The three methods are the same loop     *)
(* over a different URL and a different key of the response, so they are   *)
(* one set of actions parameterised by `endpoint`.                         *)
(***************************************************************************)
PageSize == 100        \* "count": 100 and `len(batch_items) < 100`
MaxRequests == 3       \* requests per call that the histories record

Endpoints == {"collection_items", "wishlist_items", "following_bands"}

\* The key of the response each method reads its batch from
BatchKey(e) == IF e = "following_bands" THEN "followeers" ELSE "items"

\* f"{BANDCAMP_API_URL}/fan/{fan_id}/<endpoint>"
EndpointUrl(f, e) == <<"fan", f, e>>

\* Batch lengths and last_token values the server may answer with.  A batch
\* of length 0 is also what data.get(key, []) gives when the key is missing.
PageLens == {0, 1, 37, PageSize - 1, PageSize}
Tokens == {None, "", "t1", "t2"}
FailStatuses == {401, 500}

\* The server's listing is the items 1, 2, 3, ... in server order.  A list of
\* items is written as its runs of consecutive items, <<first, last>>, in
\* list order and with adjacent runs joined: <<<<1, 237>>>> is the list
\* 1, 2, ..., 237 and <<<<101, 137>>, <<1, 100>>>> is 101, ..., 137, 1, ..., 100.
\* Two lists are equal exactly when their runs are.
RECURSIVE ItemCount(_)
\* len(list)
ItemCount(list) ==
    IF list = <<>> THEN 0
    ELSE ItemCount(Tail(list)) + (list[1][2] - list[1][1] + 1)

\* list + other
Concat(list, other) ==
    IF list = <<>> THEN other
    ELSE IF other = <<>> THEN list
    ELSE IF list[Len(list)][2] + 1 = other[1][1]
    THEN SubSeq(list, 1, Len(list) - 1)
         \o <<<<list[Len(list)][1], other[1][2]>>>>
         \o Tail(other)
    ELSE list \o other

\* A batch of n items served after `base` items is the next n of the listing
Batch(base, n) == IF n = 0 THEN <<>> ELSE <<<<base + 1, base + n>>>>

RECURSIVE ServedCount(_)
\* Number of items in the batches of a sequence of responses
ServedCount(rs) ==
    IF rs = <<>> THEN 0 ELSE ServedCount(SubSeq(rs, 1, Len(rs) - 1)) + rs[Len(rs)].n

\* All items of a sequence of responses, concatenated in server order
Served(rs) == Batch(0, ServedCount(rs))

InitialOffset == "0"                         \* offset = 0

MayList_always(identity) == TRUE

\* `if not self.user_identity.is_authenticated: return []` and
\* `if not fan_id: return []`
MayList(identity) == identity.is_authenticated /\ Truthy(identity.fan_id)

Params_current(f, off) ==
    [fan_id |-> user_identity.fan_id, older_than_token |-> off, count |-> PageSize]

\* params = {"fan_id": ..., "older_than_token": offset, "count": 100}
Params(f, off) == [fan_id |-> f, older_than_token |-> off, count |-> PageSize]

ExtendItems_exclusive(its, batch) ==
    IF ItemCount(batch) < PageSize THEN its ELSE Concat(its, batch)

\* items.extend(batch_items)
ExtendItems(its, batch) == Concat(its, batch)

\* `if len(batch_items) < 100: break`
LastPage(batch) == ItemCount(batch) < PageSize

NextOffset_stale(off, token) == IF off = InitialOffset THEN token ELSE off

\* offset = data.get("last_token")
NextOffset(off, token) == token

\* `if not offset: break`
NoCursor(off) == ~Truthy(off)

\* `except Exception: ... return []`
OnException(its) == <<>>

InitPage ==
    /\ pc_page = "idle"
    /\ endpoint = None
    /\ fan_id = None
    /\ url = <<>>
    /\ offset = InitialOffset
    /\ items = <<>>
    /\ page_result = <<>>
    /\ requests = <<>>
    /\ responses = <<>>
    /\ prev_outcome = <<>>

\* The call of one of the three methods, up to its first request
CallListing(e) ==
    /\ pc_page = "idle"
    /\ endpoint' = e
    /\ IF MayList(user_identity)
       THEN /\ fan_id' = user_identity.fan_id
            /\ url' = EndpointUrl(user_identity.fan_id, e)
            /\ items' = <<>>
            /\ offset' = InitialOffset
            /\ pc_page' = "send"
            /\ UNCHANGED page_result
       ELSE /\ page_result' = <<>>
            /\ pc_page' = "done"
            /\ UNCHANGED <<fan_id, url, items, offset>>
    /\ UNCHANGED <<requests, responses, prev_outcome>>
    /\ UNCHANGED <<user_identity, authVars, albumVars, helpVars, provVars, routeVars>>

\* self.session.post(url, json=params): the request leaves, the call suspends
PostRequest ==
    /\ pc_page = "send"
    /\ Len(requests) < MaxRequests
    /\ requests' = Append(requests, [url |-> url, params |-> Params(fan_id, offset)])
    /\ pc_page' = "await"
    /\ UNCHANGED <<endpoint, fan_id, url, offset, items, page_result, responses,
                   prev_outcome>>
    /\ UNCHANGED <<user_identity, authVars, albumVars, helpVars, provVars, routeVars>>

\* `break` followed by `return items`
BreakAndReturn(its) ==
    /\ page_result' = its
    /\ pc_page' = "done"

Awaiting == pc_page = "await" /\ Len(responses) < Len(requests)

\* The server answers 200 with a batch of n items and the given last_token
RespondPage(n, token) ==
    /\ Awaiting
    /\ responses' = Append(responses, [status |-> 200, n |-> n, last_token |-> token,
                                       raised |-> FALSE])
    /\ LET batch_items == Batch(ServedCount(responses), n)
       IN IF batch_items = <<>>
          THEN /\ BreakAndReturn(items)
               /\ UNCHANGED <<items, offset>>
          ELSE /\ items' = ExtendItems(items, batch_items)
               /\ IF LastPage(batch_items)
                  THEN /\ BreakAndReturn(items')
                       /\ UNCHANGED offset
                  ELSE /\ offset' = NextOffset(offset, token)
                       /\ IF NoCursor(offset')
                          THEN BreakAndReturn(items')
                          ELSE /\ pc_page' = "send"
                               /\ UNCHANGED page_result
    /\ UNCHANGED <<endpoint, fan_id, url, requests, prev_outcome>>
    /\ UNCHANGED <<user_identity, authVars, albumVars, helpVars, provVars, routeVars>>

\* The server answers with a status other than 200
RespondStatus(st) ==
    /\ Awaiting
    /\ responses' = Append(responses, [status |-> st, n |-> 0, last_token |-> None,
                                       raised |-> FALSE])
    /\ BreakAndReturn(items)
    /\ UNCHANGED <<endpoint, fan_id, url, offset, items, requests, prev_outcome>>
    /\ UNCHANGED <<user_identity, authVars, albumVars, helpVars, provVars, routeVars>>

\* The request (or reading its body) raises: connection error, timeout, bad JSON
RespondRaises ==
    /\ Awaiting
    /\ responses' = Append(responses, [status |-> 0, n |-> 0, last_token |-> None,
                                       raised |-> TRUE])
    /\ page_result' = OnException(items)
    /\ pc_page' = "done"
    /\ UNCHANGED <<endpoint, fan_id, url, offset, items, requests, prev_outcome>>
    /\ UNCHANGED <<user_identity, authVars, albumVars, helpVars, provVars, routeVars>>

\* A response is a failed page request
FailedResponse(r) == r.raised \/ r.status # 200

\* The call ended because a page request failed
Truncated == responses # <<>> /\ FailedResponse(responses[Len(responses)])

\* What the caller has in hand once the call is over: the returned list
Outcome == page_result

\* The caller takes the returned list; the client is ready for the next call
ReturnListing ==
    /\ pc_page = "done"
    /\ prev_outcome' = <<[outcome |-> Outcome, truncated |-> Truncated]>>
    /\ pc_page' = "idle"
    /\ endpoint' = None
    /\ fan_id' = None
    /\ url' = <<>>
    /\ offset' = InitialOffset
    /\ items' = <<>>
    /\ page_result' = <<>>
    /\ requests' = <<>>
    /\ responses' = <<>>
    /\ UNCHANGED <<user_identity, authVars, albumVars, helpVars, provVars, routeVars>>

\* A concurrent authentication succeeds and replaces user_identity
\* (`self.user_identity = BandcampUserIdentity.from_api_data(user_data)`)
IdentityReplaced(data) ==
    /\ DataTruthy(data)
    /\ user_identity' = from_api_data(data)
    /\ UNCHANGED <<authVars, pageVars, albumVars, helpVars, provVars, routeVars>>

(***************************************************************************)
(* Initial states of the other components (their actions follow)           *)
(***************************************************************************)
NumTasks == 2          \* concurrent callers of authenticate_*
Tasks == 1..NumTasks

\* BandcampApiClient.__init__
InitAuth ==
    /\ user_identity = DefaultIdentity
    /\ authenticating = FALSE
    /\ auth_lock = 0
    /\ auth_pc = [t \in Tasks |-> "idle"]
    /\ auth_ret = [t \in Tasks |-> FALSE]
    /\ auth_before = [t \in Tasks |-> DefaultIdentity]
    /\ auth_reported = [t \in Tasks |-> NoData]
    /\ auth_clean = [t \in Tasks |-> TRUE]
    /\ cookie_saves = [t \in Tasks |-> 0]

InitAlbum ==
    /\ album_call = <<>>
    /\ album_result = <<>>
    /\ album_requests = <<>>
    /\ album_again = <<>>
    /\ album_failed = <<>>

InitHelpers ==
    /\ h_call = <<>>
    /\ h_result = <<>>

InitProvider ==
    /\ search_call = <<>>
    /\ search_result = <<>>
    /\ search_requests = <<>>
    /\ browse_call = <<>>
    /\ browse_result = <<>>
    /\ browse_api = <<>>

\* INSTANCE_CONFIGS = {}: no key has a config
InstanceIds == {"a", "b"}
InitRoutes ==
    /\ INSTANCE_CONFIGS = [k \in InstanceIds |-> <<>>]
    /\ route_call = <<>>
    /\ route_response = <<>>

Init == InitAuth /\ InitPage /\ InitAlbum /\ InitHelpers /\ InitProvider /\ InitRoutes

(***************************************************************************)
(* Specification of the fan listings                                       *)
(***************************************************************************)
NextPaginate ==
    \/ \E e \in Endpoints : CallListing(e)
    \/ PostRequest
    \/ \E n \in PageLens, token \in Tokens : RespondPage(n, token)
    \/ \E st \in FailStatuses : RespondStatus(st)
    \/ RespondRaises
    \/ ReturnListing
    \/ \E data \in UserDatas : IdentityReplaced(data)

SpecPaginate == Init /\ [][NextPaginate]_vars

(***************************************************************************)
(* The same loop past the MaxRequests requests the histories record.  The  *)
(* loop's control flow reads only the status, the batch length and the     *)
(* last_token of a response, never `items`, so past that point the model   *)
(* follows the control flow alone and leaves `items` and the histories as  *)
(* they are.  Only the full-page answer with a cursor keeps the loop       *)
(* going, so it is the only answer modelled here.                          *)
(***************************************************************************)
PostRequestBeyond ==
    /\ pc_page = "send"
    /\ Len(requests) = MaxRequests
    /\ pc_page' = "await"
    /\ UNCHANGED <<endpoint, fan_id, url, offset, items, page_result, requests,
                   responses, prev_outcome>>
    /\ UNCHANGED <<user_identity, authVars, albumVars, helpVars, provVars, routeVars>>

RespondPageBeyond(token) ==
    /\ pc_page = "await"
    /\ Len(responses) = Len(requests)
    /\ ~LastPage(Batch(0, PageSize))
    /\ offset' = NextOffset(offset, token)
    /\ ~NoCursor(offset')
    /\ pc_page' = "send"
    /\ UNCHANGED <<endpoint, fan_id, url, items, page_result, requests, responses,
                   prev_outcome>>
    /\ UNCHANGED <<user_identity, authVars, albumVars, helpVars, provVars, routeVars>>

\* The steps of the client's loop, and the answers of the server
ClientStep == PostRequest \/ PostRequestBeyond
ServerStep ==
    \/ \E n \in PageLens, token \in Tokens : RespondPage(n, token)
    \/ \E st \in FailStatuses : RespondStatus(st)
    \/ RespondRaises
    \/ \E token \in Tokens : RespondPageBeyond(token)

NextFairPaginate ==
    \/ \E e \in Endpoints : CallListing(e)
    \/ ClientStep
    \/ ServerStep
    \/ ReturnListing
    \/ \E data \in UserDatas : IdentityReplaced(data)

\* The event loop resumes a runnable coroutine, and every request is answered
\* (with a page, an error status or a timeout exception).
FairPaginate ==
    Init /\ [][NextFairPaginate]_vars /\ WF_vars(ClientStep) /\ WF_vars(ServerStep)

(***************************************************************************)
(* Claims about the fan listings                                           *)
(***************************************************************************)
OkPage(r) == ~r.raised /\ r.status = 200
FullPage(r) == OkPage(r) /\ r.n = PageSize /\ Truthy(r.last_token)
PartialPage(r) == OkPage(r) /\ r.n \in 1..(PageSize - 1)

\* The server has answered k full pages with a cursor and then one partial page
FullThenPartial ==
    /\ responses # <<>>
    /\ PartialPage(responses[Len(responses)])
    /\ \A i \in 1..(Len(responses) - 1) : FullPage(responses[i])

\* C1: when the server's pages are k full pages (each with a non-empty
\* last_token) followed by one partial page, the call has returned exactly the
\* concatenation of the k+1 pages, each item once and in server order, and it
\* has issued k+1 requests, none after the partial page.
C1_FullThenPartialReturnsAll ==
    FullThenPartial =>
        /\ pc_page = "done"
        /\ page_result = Served(responses)
        /\ Len(requests) = Len(responses)

\* Pages of 100, 100 and 37 items gave 237 items from 3 requests
C1_Witness ==
    /\ pc_page = "done"
    /\ Len(responses) = 3
    /\ FullThenPartial
    /\ responses[3].n = 37
    /\ ItemCount(page_result) = 237
    /\ page_result = <<<<1, 237>>>>
    /\ Len(requests) = 3

\* C2: when the request for page n >= 2 fails, by a status other than 200 or
\* by an exception, the call returns exactly the items of pages 1..n-1.
C2_FailureKeepsEarlierPages ==
    (pc_page = "done" /\ Len(responses) >= 2 /\ Truncated) =>
        page_result = Served(responses)

\* C3: a call that ended early because a page request failed is
\* distinguishable, by what the caller gets, from a call that completed
\* normally with the same items.
C3_TruncationDistinguishable ==
    (/\ pc_page = "done"
     /\ prev_outcome # <<>>
     /\ Outcome # <<>>
     /\ prev_outcome[1].truncated # Truncated) =>
        prev_outcome[1].outcome # Outcome

\* C4: the first request of a call carries token 0, every later request
\* carries the last_token of the response just before it, and after a
\* response without a (non-empty) last_token no further request is issued,
\* even when its page was full.
C4_CursorFollowsLastToken ==
    /\ requests # <<>> => requests[1].params.older_than_token = InitialOffset
    /\ \A i \in 2..Len(requests) :
           requests[i].params.older_than_token = responses[i - 1].last_token
    /\ \A i \in 1..Len(responses) :
           ~Truthy(responses[i].last_token) =>
               (Len(requests) = i /\ pc_page = "done")

\* Two cursors in a row were followed and a full page without a cursor ended the call
C4_Witness ==
    /\ pc_page = "done"
    /\ Len(requests) = 3
    /\ requests[2].params.older_than_token = "t1"
    /\ requests[3].params.older_than_token = "t2"
    /\ OkPage(responses[3])
    /\ responses[3].n = PageSize
    /\ responses[3].last_token = ""

\* The exception a call of get_*_items lets through to its caller: none, the
\* methods have no raise statement and their `except Exception` returns []
ListingError == None

\* C20: when the server answers a page request with a status other than 200,
\* the call fails with SessionExpired, which reaches the caller, and the
\* request is not issued again.
C20_SessionExpiredPropagates ==
    (/\ pc_page = "done"
     /\ responses # <<>>
     /\ ~responses[Len(responses)].raised
     /\ responses[Len(responses)].status # 200) =>
        /\ ListingError = "SessionExpired"
        /\ Len(requests) = Len(responses)

\* One of the three methods is called
ListingCalled == pc_page = "idle" /\ pc_page' # "idle"
\* The identity is not authenticated or has no fan_id
NotListable(identity) == ~identity.is_authenticated \/ identity.fan_id = None

\* C22: called while user_identity is not authenticated or has no fan_id,
\* each of the three methods returns an empty list at once and issues no
\* request; and no step of the methods changes user_identity.
C22_UnauthenticatedListsNothing ==
    [][/\ (ListingCalled /\ NotListable(user_identity)) =>
              /\ pc_page' = "done"
              /\ page_result' = <<>>
              /\ requests' = <<>>
       /\ pageVars' # pageVars => user_identity' = user_identity]_vars

\* A call returned the empty list without a request, on an identity that has
\* a username and no fan_id
C22_Witness ==
    /\ pc_page = "done"
    /\ endpoint = "wishlist_items"
    /\ requests = <<>>
    /\ page_result = <<>>
    /\ user_identity.username = "alice"
    /\ ~user_identity.is_authenticated

\* C23: every page request of a call goes to the endpoint of the called
\* method and carries the fan_id the call read from user_identity when it
\* started, also when user_identity is replaced between two pages; so the
\* token a response issued is sent on with the fan_id and to the URL of the
\* request it answered.
C23_RequestsKeepFanAndEndpoint ==
    /\ \A i \in 1..Len(requests) :
           /\ requests[i].url = <<"fan", fan_id, endpoint>>
           /\ requests[i].params.fan_id = fan_id
    /\ \A i \in 2..Len(requests) :
           /\ requests[i].params.older_than_token = responses[i - 1].last_token
           /\ requests[i].url = requests[i - 1].url
           /\ requests[i].params.fan_id = requests[i - 1].params.fan_id

\* The second page of fan 7's followed artists is requested with fan 7's
\* token and fan_id while user_identity is fan 8's
C23_Witness ==
    /\ pc_page = "await"
    /\ Len(requests) = 2
    /\ user_identity.fan_id = "8"
    /\ requests[1].params.fan_id = "7"
    /\ requests[2] = [url |-> <<"fan", "7", "following_bands">>,
                      params |-> [fan_id |-> "7", older_than_token |-> "t1",
                                  count |-> 100]]

\* C5: every call terminates, whatever the server answers.
C5_EveryCallTerminates == (pc_page = "send") ~> (pc_page = "done")

(***************************************************************************)
(* Authentication: authenticate_with_cookies and                           *)
(* authenticate_with_credentials (api.py).  Each task is one caller; a     *)
(* call suspends at every await of the authentication helper, and the      *)
(* helper (an external collaborator) may answer, report nothing, or raise. *)
(* In the source the `async with self._auth_lock:` line of                 *)
(* authenticate_with_credentials is followed by its try block at the same  *)
(* indentation; the model reads the try block as the body of the lock.     *)
(***************************************************************************)
AuthTokens == {None, "cookie"}
Usernames == {"", "alice"}
Passwords == {"", "secret"}

\* The positions at which a call is running an authentication flow against
\* the server (inside `async with self.auth_helper.start_session()`)
FlowPcs == {"load", "verify", "submit", "save"}
InFlow(t) == auth_pc[t] \in FlowPcs

\* `if self._authenticating or not username or not password: return False`
CredentialsRefused(username, password) ==
    authenticating \/ ~Truthy(username) \/ ~Truthy(password)

\* Leaving `async with self._auth_lock` releases the lock the task holds
Released(t) == IF auth_lock = t THEN 0 ELSE auth_lock

\* Bookkeeping of a call that starts
Started(t) ==
    /\ auth_before' = [auth_before EXCEPT ![t] = user_identity]
    /\ auth_reported' = [auth_reported EXCEPT ![t] = NoData]
    /\ auth_clean' = [auth_clean EXCEPT ![t] = TRUE]
    /\ cookie_saves' = [cookie_saves EXCEPT ![t] = 0]

\* `return <value>` out of the try block (and out of the lock)
Returns(t, value) ==
    /\ auth_ret' = [auth_ret EXCEPT ![t] = value]
    /\ auth_pc' = [auth_pc EXCEPT ![t] = "done"]
    /\ auth_lock' = Released(t)

\* authenticate_with_cookies(auth_token), up to its first await
CookiesCall(t, token) ==
    /\ auth_pc[t] = "idle"
    /\ Started(t)
    /\ auth_pc' = [auth_pc EXCEPT ![t] = IF Truthy(token) THEN "verify" ELSE "load"]
    /\ UNCHANGED <<user_identity, authenticating, auth_lock, auth_ret>>
    /\ UNCHANGED <<pageVars, albumVars, helpVars, provVars, routeVars>>

\* `await self.auth_helper.load_cookies(self.cookie_file)` completes
CookiesLoaded(t) ==
    /\ auth_pc[t] = "load"
    /\ auth_pc' = [auth_pc EXCEPT ![t] = "verify"]
    /\ UNCHANGED <<user_identity, authenticating, auth_lock, auth_ret,
                   auth_before, auth_reported, auth_clean, cookie_saves>>
    /\ UNCHANGED <<pageVars, albumVars, helpVars, provVars, routeVars>>

\* `if user_data:` ... `else: return False`, shared by both methods: the
\* helper handed back `data`
UserDataArrives(t, data) ==
    /\ auth_reported' = [auth_reported EXCEPT ![t] = data]
    /\ IF DataTruthy(data)
       THEN /\ user_identity' = from_api_data(data)
            /\ auth_clean' = [u \in Tasks |->
                                 IF u # t /\ auth_pc[u] # "idle" THEN FALSE
                                 ELSE auth_clean[u]]
            /\ cookie_saves' = [cookie_saves EXCEPT ![t] = @ + 1]
            /\ auth_pc' = [auth_pc EXCEPT ![t] = "save"]
            /\ UNCHANGED <<auth_ret, auth_lock>>
       ELSE /\ Returns(t, FALSE)
            /\ UNCHANGED <<user_identity, auth_clean, cookie_saves>>
    /\ UNCHANGED <<authenticating, auth_before>>
    /\ UNCHANGED <<pageVars, albumVars, helpVars, provVars, routeVars>>

\* `await self.auth_helper.get_authenticated_user_data(...)` returns
CookiesVerified(t, data) ==
    /\ auth_pc[t] = "verify"
    /\ UserDataArrives(t, data)

\* authenticate_with_credentials(username, password), up to the lock
CredentialsCall(t, username, password) ==
    /\ auth_pc[t] = "idle"
    /\ Started(t)
    /\ IF CredentialsRefused(username, password)
       THEN Returns(t, FALSE)
       ELSE /\ auth_pc' = [auth_pc EXCEPT ![t] = "lock"]
            /\ UNCHANGED <<auth_ret, auth_lock>>
    /\ UNCHANGED <<user_identity, authenticating>>
    /\ UNCHANGED <<pageVars, albumVars, helpVars, provVars, routeVars>>

\* `async with self._auth_lock:` is entered once the lock is free
LockAcquired(t) ==
    /\ auth_pc[t] = "lock"
    /\ auth_lock = 0
    /\ auth_lock' = t
    /\ auth_pc' = [auth_pc EXCEPT ![t] = "submit"]
    /\ UNCHANGED <<user_identity, authenticating, auth_ret, auth_before,
                   auth_reported, auth_clean, cookie_saves>>
    /\ UNCHANGED <<pageVars, albumVars, helpVars, provVars, routeVars>>

\* `await self.auth_helper.submit_form(...)` returns
CredentialsSubmitted(t, data) ==
    /\ auth_pc[t] = "submit"
    /\ UserDataArrives(t, data)

\* `await self.auth_helper.save_cookies(self.cookie_file)` completes: return True
CookiesSaved(t) ==
    /\ auth_pc[t] = "save"
    /\ Returns(t, TRUE)
    /\ UNCHANGED <<user_identity, authenticating, auth_before,
                   auth_reported, auth_clean, cookie_saves>>
    /\ UNCHANGED <<pageVars, albumVars, helpVars, provVars, routeVars>>

\* An await of the helper raises: `except Exception: ... return False`
AuthRaises(t) ==
    /\ InFlow(t)
    /\ Returns(t, FALSE)
    /\ UNCHANGED <<user_identity, authenticating, auth_before,
                   auth_reported, auth_clean, cookie_saves>>
    /\ UNCHANGED <<pageVars, albumVars, helpVars, provVars, routeVars>>

\* The caller has the returned value; the task may call again
AuthReturned(t) ==
    /\ auth_pc[t] = "done"
    /\ auth_pc' = [auth_pc EXCEPT ![t] = "idle"]
    /\ auth_ret' = [auth_ret EXCEPT ![t] = FALSE]
    /\ auth_before' = [auth_before EXCEPT ![t] = DefaultIdentity]
    /\ auth_reported' = [auth_reported EXCEPT ![t] = NoData]
    /\ auth_clean' = [auth_clean EXCEPT ![t] = TRUE]
    /\ cookie_saves' = [cookie_saves EXCEPT ![t] = 0]
    /\ UNCHANGED <<user_identity, authenticating, auth_lock>>
    /\ UNCHANGED <<pageVars, albumVars, helpVars, provVars, routeVars>>

NextAuth ==
    \E t \in Tasks :
        \/ \E token \in AuthTokens : CookiesCall(t, token)
        \/ CookiesLoaded(t)
        \/ \E data \in UserDatas : CookiesVerified(t, data)
        \/ \E u \in Usernames, p \in Passwords : CredentialsCall(t, u, p)
        \/ LockAcquired(t)
        \/ \E data \in UserDatas : CredentialsSubmitted(t, data)
        \/ CookiesSaved(t)
        \/ AuthRaises(t)
        \/ AuthReturned(t)

SpecAuth == Init /\ [][NextAuth]_vars

(***************************************************************************)
(* Claims about authentication                                             *)
(***************************************************************************)
\* C6: when an authenticate call reports failure (the server rejected the
\* cookie or the credentials, the username or password was empty, or an
\* exception was raised during the flow), user_identity is what it was before
\* the call.  (Stated for calls during which no other call assigned
\* user_identity.)
C6_FailureLeavesIdentity ==
    \A t \in Tasks :
        (auth_pc[t] = "done" /\ ~auth_ret[t] /\ auth_clean[t]) =>
            user_identity = auth_before[t]

\* C7: when an authenticate call reports success, user_identity has
\* is_authenticated = TRUE and the fan_id the server reported, whatever
\* user-data record the server returned.
C7_SuccessMeansAuthenticated ==
    \A t \in Tasks :
        (auth_pc[t] = "done" /\ auth_ret[t] /\ auth_clean[t]) =>
            /\ user_identity.is_authenticated
            /\ user_identity.fan_id = auth_reported[t].fan_id

\* C8: at most one authentication flow is in flight at any time.
C8_OneFlowAtATime == Cardinality({t \in Tasks : InFlow(t)}) <= 1

\* C21: save_cookies is called exactly in the flows that succeed: at most
\* once in a flow, only once the server has returned user data and
\* user_identity has been replaced, once in a flow that reports success and
\* never in a flow that reports failure.
C21_CookiesSavedOnSuccessOnly ==
    \A t \in Tasks :
        /\ cookie_saves[t] <= 1
        /\ cookie_saves[t] = 1 =>
               /\ DataTruthy(auth_reported[t])
               /\ auth_clean[t] => user_identity = from_api_data(auth_reported[t])
        /\ auth_pc[t] = "done" =>
               (cookie_saves[t] = 1 <=> auth_ret[t])

(***************************************************************************)
(* Search: BandcampApiClient.search (api.py), BandcampAPI.search           *)
(* (helpers.py) and BandcampProvider.search (__init__.py).  The result     *)
(* page has one section per kind, each a list of result rows.              *)
(***************************************************************************)
MaxRows == 2           \* result rows in one section of a search page

Kinds == {"artist", "album", "track"}
\* The sections in document order: li.band, li.album, li.track
KindOrder == <<"artist", "album", "track">>

\* A result row, as far as the searches read it: its div.heading with the
\* link (title and link), its div.subhead with a link, its div.itemsubtext,
\* its div.art, the src of the image and the href of the heading's link.
RowShapes ==
    {[heading |-> TRUE,  subhead |-> TRUE,  subtext |-> TRUE,  art |-> TRUE,  img |-> "img.jpg"],
     [heading |-> TRUE,  subhead |-> TRUE,  subtext |-> TRUE,  art |-> TRUE,  img |-> None],
     [heading |-> FALSE, subhead |-> TRUE,  subtext |-> TRUE,  art |-> TRUE,  img |-> None],
     [heading |-> TRUE,  subhead |-> FALSE, subtext |-> TRUE,  art |-> TRUE,  img |-> None],
     [heading |-> TRUE,  subhead |-> TRUE,  subtext |-> TRUE,  art |-> FALSE, img |-> None]}
GoodShape ==
    [heading |-> TRUE, subhead |-> TRUE, subtext |-> TRUE, art |-> TRUE, img |-> "img.jpg"]

\* The href of the i-th row of a section
RowUrl(kind, i) == <<"https", "bandcamp.com", kind, ToString(i)>>
RowOf(kind, i, shape) ==
    [heading |-> shape.heading, subhead |-> shape.subhead, subtext |-> shape.subtext,
     art |-> shape.art, img |-> shape.img, url |-> RowUrl(kind, i)]
Section(kind, shapes) == [i \in 1..Len(shapes) |-> RowOf(kind, i, shapes[i])]

ShapeLists == UNION {[1..n -> RowShapes] : n \in 0..MaxRows}
\* The other sections of a page: not there, or with one complete row
SampleShapeLists == {<<>>, <<GoodShape>>}

\* The pages of the model: one section is any list of up to MaxRows rows,
\* the other two are samples
SearchPages ==
    {[k \in Kinds |-> Section(k, IF k = varied THEN shapes ELSE others[k])] :
        varied \in Kinds, shapes \in ShapeLists, others \in [Kinds -> SampleShapeLists]}

SearchStatuses == {"200", "500", "raises"}
NoSearchPage == [k \in Kinds |-> <<>>]
\* What the server answers to the query request
SearchAnswers ==
    [status : {"200"}, page : SearchPages]
    \cup [status : SearchStatuses \ {"200"}, page : {NoSearchPage}]

\* BandcampArtist / BandcampAlbum / BandcampTrack of a row (the names and ids
\* come from the same elements as the link)
ResultOf(kind, row) == [kind |-> kind, url |-> row.url, image_url |-> row.img]

ParsesRow(kind, row) ==
    /\ row.heading                            \* item.find("div", heading).find("a")
    /\ kind = "artist" \/ row.subhead         \* item.find("div", subhead).find("a")
    /\ kind # "track" \/ row.subtext          \* item.find("div", itemsubtext).find("a")
    /\ row.art                                \* item.find("div", art).find("img")

\* items[:limit]
Take(rows, limit) == SubSeq(rows, 1, IF limit < Len(rows) THEN limit ELSE Len(rows))

\* One `for item in ..._items[:limit]` loop of api.py
ParseSection(kind, rows, limit) ==
    LET Ok(row) == ParsesRow(kind, row)
        kept == SelectSeq(Take(rows, limit), Ok)
    IN [i \in 1..Len(kept) |-> ResultOf(kind, kept[i])]

NoResults == [k \in Kinds |-> <<>>]

\* BandcampApiClient.search(query, limit): the (artists, albums, tracks) it
\* returns; it raises nothing
api_search(answer, limit) ==
    IF answer.status # "200" THEN NoResults
    ELSE [k \in Kinds |-> ParseSection(k, answer.page[k], limit)]

\* soup.select("li.searchresult"): the rows of the page in document order
AllRows(page) ==
    [i \in 1..(Len(page["artist"]) + Len(page["album"]) + Len(page["track"])) |->
        IF i <= Len(page["artist"])
        THEN [kind |-> "artist", row |-> page["artist"][i]]
        ELSE IF i <= Len(page["artist"]) + Len(page["album"])
        THEN [kind |-> "album", row |-> page["album"][i - Len(page["artist"])]]
        ELSE [kind |-> "track",
              row |-> page["track"][i - Len(page["artist"]) - Len(page["album"])]]]

\* item.select_one(".heading").get_text(...) raises on a row without heading
HelperRowRaises(row) == ~row.heading

\* The Track/Album/Artist helpers.py appends for a row
HelperResultOf(kind, row) == [kind |-> kind, url |-> row.url, image_url |-> None]

\* BandcampAPI.search(query, media_types): _fetch_html does not look at the
\* status, so any body the server sends is parsed
helper_search(answer, media_types) ==
    IF answer.status = "raises" THEN [raised |-> TRUE, results |-> NoResults]
    ELSE IF \E i \in 1..Len(AllRows(answer.page)) : HelperRowRaises(AllRows(answer.page)[i].row)
    THEN [raised |-> TRUE, results |-> NoResults]
    ELSE [raised |-> FALSE,
          results |-> [k \in Kinds |->
                          IF k \in media_types
                          THEN [i \in 1..Len(answer.page[k]) |->
                                   HelperResultOf(k, answer.page[k][i])]
                          ELSE <<>>]]

SearchLimits == 0..MaxRows

\* A call of one of the searches and what came of it
SearchDone(op, kinds, limit, answer, raised, results, nrequests) ==
    /\ search_call' = <<[op |-> op, kinds |-> kinds, limit |-> limit, answer |-> answer]>>
    /\ search_result' = <<[raised |-> raised, results |-> results]>>
    /\ search_requests' = nrequests
    /\ UNCHANGED <<browse_call, browse_result, browse_api>>
    /\ UNCHANGED <<user_identity, authVars, pageVars, albumVars, helpVars, routeVars>>

\* No call of the searches or of browse is under way
SearchIdle == search_call = <<>> /\ browse_call = <<>>

\* BandcampApiClient.search(query, limit); the caller cannot name kinds
ApiSearchCall ==
    /\ SearchIdle
    /\ \E answer \in SearchAnswers, limit \in SearchLimits :
           SearchDone("api", <<>>, <<limit>>, answer, FALSE, api_search(answer, limit),
                      <<"search">>)

\* BandcampAPI.search(query, media_types); the caller cannot name a limit
HelperSearchCall ==
    /\ SearchIdle
    /\ \E answer \in SearchAnswers, media_types \in SUBSET Kinds :
           SearchDone("helpers", <<media_types>>, <<>>, answer,
                      helper_search(answer, media_types).raised,
                      helper_search(answer, media_types).results, <<"search">>)

\* BandcampProvider.search(search_query, media_types, limit) calls
\* self._api.search(search_query, media_types, limit), one argument more than
\* BandcampAPI.search takes: TypeError, before any request
ProviderSearchCall ==
    /\ SearchIdle
    /\ \E media_types \in SUBSET Kinds, limit \in SearchLimits :
           SearchDone("provider", <<media_types>>, <<limit>>,
                      [status |-> None, page |-> NoSearchPage], TRUE, NoResults, <<>>)

\* The caller has the result (or the exception)
SearchReturned ==
    /\ search_call # <<>>
    /\ search_call' = <<>>
    /\ search_result' = <<>>
    /\ search_requests' = <<>>
    /\ UNCHANGED <<browse_call, browse_result, browse_api>>
    /\ UNCHANGED <<user_identity, authVars, pageVars, albumVars, helpVars, routeVars>>

(***************************************************************************)
(* BandcampProvider.browse (__init__.py).  A path is the list of its       *)
(* ":"-separated parts: "genre:rock" is <<"genre", "rock">>, and the empty *)
(* list is a path of None or "".                                           *)
(***************************************************************************)
\* The children of the root folder, in order
RootCategories ==
    <<"new_notable", "genres", "tags", "best_selling", "staff_picks", "discover",
      "daily", "collection", "location", "format">>

Slugs == {"rock", "leeds"}
BrowsePaths ==
    {<<>>}
    \cup {<<RootCategories[i]>> : i \in 1..Len(RootCategories)}
    \cup {<<prefix, slug>> : prefix \in {"genre", "tag", "daily", "location", "format"},
                             slug \in Slugs}
    \cup {<<"podcasts">>, <<"genre">>, <<"Genres">>, <<"genres", "rock">>,
          <<"artist", "rock">>, <<"", "rock">>}

\* path == key
PathIs(path, key) == path = <<key>>

StartsWith_noColon(path, prefix) == path # <<>> /\ path[1] = prefix

\* path.startswith(prefix + ":")
StartsWith(path, prefix) == Len(path) >= 2 /\ path[1] = prefix

\* The operation of self._api a path leads to, in the order of the chain of
\* `if`s; None when the chain falls through to the last return
ApiOperation(path) ==
    IF PathIs(path, "genres") THEN "get_genres"
    ELSE IF StartsWith(path, "genre") THEN "get_albums_by_genre"
    ELSE IF PathIs(path, "tags") THEN "get_tags"
    ELSE IF StartsWith(path, "tag") THEN "get_albums_by_tag"
    ELSE IF PathIs(path, "new_notable") THEN "get_new_and_notable"
    ELSE IF PathIs(path, "best_selling") THEN "get_best_selling"
    ELSE IF PathIs(path, "staff_picks") THEN "get_staff_picks"
    ELSE IF PathIs(path, "discover") THEN "get_discover"
    ELSE IF PathIs(path, "daily") THEN "get_bandcamp_daily"
    ELSE IF StartsWith(path, "daily") THEN "get_albums_from_daily"
    ELSE IF PathIs(path, "collection") THEN "get_user_collection"
    ELSE IF PathIs(path, "location") THEN "get_locations"
    ELSE IF StartsWith(path, "location") THEN "get_albums_by_location"
    ELSE IF PathIs(path, "format") THEN "get_formats"
    ELSE IF StartsWith(path, "format") THEN "get_albums_by_format"
    ELSE None

\* BandcampAPI has none of these operations but get_user_collection, an
\* async generator, which `await` refuses: each of them raises
ApiOperationRaises(op) == TRUE

Folder(item_id, children) == [raised |-> FALSE, item_id |-> item_id, children |-> children]
BrowseRaised == [raised |-> TRUE, item_id |-> <<>>, children |-> <<>>]

\* What browse(path) returns or raises, and the API operations it uses
browse(path) ==
    IF path = <<>>                                        \* `if not path:`
    THEN [result |-> Folder(<<"bandcamp_root">>, RootCategories), api |-> <<>>]
    ELSE IF ApiOperation(path) = None
    THEN [result |-> Folder(path, <<>>), api |-> <<>>]
    ELSE IF ApiOperationRaises(ApiOperation(path))
    THEN [result |-> BrowseRaised, api |-> <<ApiOperation(path)>>]
    ELSE [result |-> Folder(path, <<>>), api |-> <<ApiOperation(path)>>]

\* One call of browse(path)
BrowseCall ==
    /\ SearchIdle
    /\ \E path \in BrowsePaths :
          /\ browse_call' = <<[path |-> path]>>
          /\ browse_result' = <<browse(path).result>>
          /\ browse_api' = browse(path).api
    /\ UNCHANGED <<search_call, search_result, search_requests>>
    /\ UNCHANGED <<user_identity, authVars, pageVars, albumVars, helpVars, routeVars>>

\* The caller has the folder (or the exception)
BrowseReturned ==
    /\ browse_call # <<>>
    /\ browse_call' = <<>>
    /\ browse_result' = <<>>
    /\ browse_api' = <<>>
    /\ UNCHANGED <<search_call, search_result, search_requests>>
    /\ UNCHANGED <<user_identity, authVars, pageVars, albumVars, helpVars, routeVars>>

NextProvider ==
    \/ ApiSearchCall
    \/ HelperSearchCall
    \/ ProviderSearchCall
    \/ SearchReturned
    \/ BrowseCall
    \/ BrowseReturned

SpecProvider == Init /\ [][NextProvider]_vars

(***************************************************************************)
(* Claims about the searches and browse                                    *)
(***************************************************************************)
SearchCalled == search_call # <<>>
Results == search_result[1].results
PageSearched == search_call[1].answer.page
\* The positions of a section's rows that a list of results came from
Urls(list) == [i \in 1..Len(list) |-> list[i].url]
RECURSIVE IsSubsequence(_, _)
IsSubsequence(a, b) ==
    IF a = <<>> THEN TRUE
    ELSE IF b = <<>> THEN FALSE
    ELSE IF a[1] = b[1] THEN IsSubsequence(Tail(a), Tail(b))
    ELSE IsSubsequence(a, Tail(b))

\* C17: a search performs one query request and returns, for each kind, at
\* most `limit` results, in page order, and none of a kind the caller did not
\* request.
C17_SearchCapsEachKind ==
    SearchCalled =>
        /\ Len(search_requests) = 1
        /\ ~search_result[1].raised =>
               \A k \in Kinds :
                   /\ search_call[1].limit # <<>> =>
                          Len(Results[k]) <= search_call[1].limit[1]
                   /\ IsSubsequence(Urls(Results[k]), Urls(PageSearched[k]))
                   /\ (search_call[1].kinds # <<>> /\ k \notin search_call[1].kinds[1]) =>
                          Results[k] = <<>>

\* A row with its title and link (the heading and its link)
WellFormed(row) == row.heading
\* The rows of a section the cap lets through
WithinCap(rows) ==
    IF search_call[1].limit = <<>> THEN rows
    ELSE SubSeq(rows, 1, IF search_call[1].limit[1] < Len(rows)
                         THEN search_call[1].limit[1] ELSE Len(rows))
Requested(k) == search_call[1].kinds = <<>> \/ k \in search_call[1].kinds[1]

\* C18: a search never raises on a result page, and for each requested kind
\* it returns exactly the rows that have their title and link, within the
\* cap and in page order, wherever the rows without title or link are.
C18_MalformedRowsAreSkipped ==
    (SearchCalled /\ search_call[1].answer.status = "200") =>
        /\ ~search_result[1].raised
        /\ \A k \in Kinds :
               Requested(k) =>
                   Urls(Results[k]) = Urls(SelectSeq(WithinCap(PageSearched[k]), WellFormed))

BrowseCalled == browse_call # <<>>
\* The path is none of the category keys and has none of the prefixes
UnknownPath(path) ==
    /\ path # <<>>
    /\ ~(Len(path) = 1 /\ \E i \in 1..Len(RootCategories) : path[1] = RootCategories[i])
    /\ ~(Len(path) >= 2 /\ path[1] \in {"genre", "tag", "daily", "location", "format"})

\* C19: browse of a path that is no category key and has no known prefix
\* returns a folder without children, raises nothing and uses no API
\* operation; browse of the empty path returns the ten root categories, also
\* without an API operation.
C19_UnknownPathIsEmptyFolder ==
    BrowseCalled =>
        /\ UnknownPath(browse_call[1].path) =>
               /\ browse_result[1] = Folder(browse_call[1].path, <<>>)
               /\ browse_api = <<>>
        /\ browse_call[1].path = <<>> =>
               /\ ~browse_result[1].raised
               /\ Len(browse_result[1].children) = 10
               /\ browse_result[1].children = RootCategories
               /\ browse_api = <<>>

\* "genre" without a colon is no prefix: an empty folder, no API operation
C19_Witness ==
    /\ BrowseCalled
    /\ browse_call[1].path = <<"genre">>
    /\ browse_result[1] = Folder(<<"genre">>, <<>>)
    /\ browse_api = <<>>

(***************************************************************************)
(* get_album (api.py): resolve the reference, fetch the page, assemble the *)
(* album and its tracks.  One action is one call; its inputs are the       *)
(* reference and what the server answers.                                  *)
(***************************************************************************)
MaxTracks == 3         \* tracks in a page's trackinfo list

\* The keys get_album looks for, in the order of its if/elif chain
FormatKeys == {"mp3-v0", "mp3-320", "mp3-128", "flac"}
Preference == <<"mp3-v0", "mp3-320", "mp3-128", "flac">>

\* A track's "file" dict: for each key, Absent (the dict has no such key),
\* None (the key is there with a null value) or the URL of that encoding.
\* The dict with every key absent also stands for a track_info without
\* "file", for which track_info.get("file", {}) gives {}.
Absent == "absent"
UrlOf(k) == CASE k = "mp3-v0"  -> "https://t4.bcbits.com/stream/v0"
              [] k = "mp3-320" -> "https://t4.bcbits.com/stream/320"
              [] k = "mp3-128" -> "https://t4.bcbits.com/stream/128"
              [] k = "flac"    -> "https://t4.bcbits.com/stream/flac"
FileInfos == {m \in [FormatKeys -> {Absent, None} \cup {UrlOf(k) : k \in FormatKeys}] :
                 \A k \in FormatKeys : m[k] \in {Absent, None, UrlOf(k)}}

\* `k in file_info`
HasKey(m, k) == m[k] # Absent
\* file_info.get(k)
Get(m, k) == IF HasKey(m, k) THEN m[k] ELSE None
\* `if file_info:` (a dict is truthy when it has a key)
DictTruthy(m) == \E k \in FormatKeys : HasKey(m, k)

(***************************************************************************)
(* int(track_info.get("duration", 0) * 1000).  The payload gives a         *)
(* duration as a decimal number of seconds; json.loads makes it the        *)
(* nearest double, the product with 1000 is rounded to the nearest double, *)
(* and int() drops the fraction.  A decimal is written here as its number  *)
(* of millionths of a second (200.5 s is 200500000), a double as           *)
(* mantissa / 2^scale with a 53-bit mantissa, and the mantissas, too long  *)
(* for a machine integer of the model checker, as sequences of base-10000  *)
(* digits, most significant first.                                         *)
(***************************************************************************)
Limb == 10000
Million == 1000000
MantissaBits == 53

RECURSIVE Pow2(_)
Pow2(n) == IF n = 0 THEN 1 ELSE 2 * Pow2(n - 1)

Front(s) == SubSeq(s, 1, Len(s) - 1)

RECURSIVE BigOfInt(_)
BigOfInt(n) == IF n < Limb THEN <<n>> ELSE BigOfInt(n \div Limb) \o <<n % Limb>>

RECURSIVE IntOfBig(_)
IntOfBig(b) == IF b = <<>> THEN 0 ELSE IntOfBig(Front(b)) * Limb + b[Len(b)]

RECURSIVE BigMulAdd(_, _, _)
\* b * k + carry
BigMulAdd(b, k, carry) ==
    IF b = <<>> THEN <<carry>>
    ELSE LET v == b[Len(b)] * k + carry
         IN BigMulAdd(Front(b), k, v \div Limb) \o <<v % Limb>>

RECURSIVE BigDivMod(_, _)
\* quotient and remainder of b by k
BigDivMod(b, k) ==
    IF b = <<>> THEN [q |-> <<>>, r |-> 0]
    ELSE LET p == BigDivMod(Front(b), k)
             v == p.r * Limb + b[Len(b)]
         IN [q |-> p.q \o <<v \div k>>, r |-> v % k]

RECURSIVE BigShiftLeft(_, _)
\* b * 2^n
BigShiftLeft(b, n) ==
    IF n = 0 THEN b
    ELSE LET c == IF n < 10 THEN n ELSE 10
         IN BigShiftLeft(BigMulAdd(b, Pow2(c), 0), n - c)

RECURSIVE BigShiftRight(_, _)
\* b \div 2^n
BigShiftRight(b, n) ==
    IF n = 0 THEN b
    ELSE LET c == IF n < 10 THEN n ELSE 10
         IN BigShiftRight(BigDivMod(b, Pow2(c)).q, n - c)

BigIsZero(b) == \A i \in 1..Len(b) : b[i] = 0
BigIsOdd(b) == b[Len(b)] % 2 = 1

\* Round to nearest, ties to even: q is the quotient by `divisor`, and
\* twice_r is twice the remainder
RoundHalfEven(q, twice_r, divisor) ==
    IF twice_r > divisor \/ (twice_r = divisor /\ BigIsOdd(q))
    THEN BigMulAdd(q, 1, 1)
    ELSE q

RECURSIVE Log2Floor(_)
\* floor(log2(n / 10^6)), n >= 1
Log2Floor(n) ==
    IF n >= 2 * Million THEN Log2Floor(n \div 2) + 1
    ELSE IF n < Million THEN Log2Floor(2 * n) - 1
    ELSE 0

\* float("n / 10^6"): the nearest double is Mantissa(n) / 2^Scale(n)
Scale(n) == (MantissaBits - 1) - Log2Floor(n)
Mantissa(n) ==
    LET num == BigShiftLeft(BigOfInt(n), Scale(n))
        low == BigDivMod(num, 1000)
        high == BigDivMod(low.q, 1000)
    IN RoundHalfEven(high.q, 2 * (high.r * 1000 + low.r), Million)

\* int(x * 1000) for the double x nearest to n / 10^6
IntOfTimes1000(n) ==
    IF n = 0 THEN 0
    ELSE LET exact == BigMulAdd(Mantissa(n), 1000, 0)
             drop == IF BigIsZero(BigShiftRight(exact, MantissaBits + 9)) THEN 9 ELSE 10
             cut == BigDivMod(exact, Pow2(drop))
             product == RoundHalfEven(cut.q, 2 * cut.r, Pow2(drop))
         IN IntOfBig(BigShiftRight(product, Scale(n) - drop))

\* The durations of the model, in millionths of a second: 200.5, 180.0,
\* 210.25, 1.001, 0.001999, 0.0005 and 0 seconds
Durations == {200500000, 180000000, 210250000, 1001000, 1999, 500, 0}

\* The "duration" of a track_info: not there, null, or a number
NoDuration == [kind |-> "absent", micro |-> 0]
NullDuration == [kind |-> "null", micro |-> 0]
Seconds(n) == [kind |-> "number", micro |-> n]
DurationFields == {NoDuration, NullDuration} \cup {Seconds(n) : n \in Durations}

\* None * 1000 raises TypeError
DurationRaises(d) == d.kind = "null"

\* int(x * 1000) for each duration of the model, computed once
TimesThousand == [n \in Durations |-> IntOfTimes1000(n)]

\* int(track_info.get("duration", 0) * 1000)
DurationMs(d) ==
    IF d.kind = "absent" THEN 0 ELSE TimesThousand[d.micro]

\* The titles of the model; Absent is a track_info without "title"
Titles == {"Intro", "Blue Sky", "Outro"}
\* track_info.get("title", "")
TitleOf(track_info) == IF track_info.title = Absent THEN "" ELSE track_info.title
\* title.replace(" ", "-").lower(), on the titles of the model
Slug(title) == CASE title = "Intro"    -> "intro"
                 [] title = "Blue Sky" -> "blue-sky"
                 [] title = "Outro"    -> "outro"
                 [] title = ""         -> ""

\* The trackinfo lists of the model: every list of up to MaxTracks entries in
\* which one entry is special and the others are the three samples in turn,
\* from any of them on.  The special entry has any "file" dict, or any title
\* and duration.  track_num is the payload's own numbering of the track.
OnlyKeys(K) == [k \in FormatKeys |-> IF k \in K THEN UrlOf(k) ELSE Absent]
TrackInfoOf(m) ==
    [title |-> "Blue Sky", duration |-> Seconds(200500000), track_num |-> 2, file |-> m]
SampleTracks ==
    <<TrackInfoOf(OnlyKeys({"mp3-320", "mp3-128"})),
      [title |-> "Intro", duration |-> Seconds(180000000), track_num |-> 1,
       file |-> OnlyKeys({})],
      [title |-> "Outro", duration |-> Seconds(210250000), track_num |-> 3,
       file |-> OnlyKeys({"flac"})]>>
SampleList(n, first) ==
    [i \in 1..n |-> SampleTracks[((i + first - 2) % Len(SampleTracks)) + 1]]
SpecialTracks ==
    {TrackInfoOf(m) : m \in FileInfos}
    \cup [title : Titles \cup {Absent}, duration : DurationFields, track_num : {1},
          file : {OnlyKeys({})}]
TrackLists ==
    {<<>>} \cup
    UNION {{[i \in 1..n |-> IF i = p THEN special ELSE SampleList(n, first)[i]] :
               p \in 1..n, special \in SpecialTracks, first \in 1..Len(SampleTracks)} :
           n \in 1..MaxTracks}

SelectStream_lowFirst(file_info) ==
    IF ~DictTruthy(file_info) THEN None
    ELSE IF Truthy(Get(file_info, "mp3-v0")) THEN Get(file_info, "mp3-v0")
    ELSE IF Truthy(Get(file_info, "mp3-128")) THEN Get(file_info, "mp3-128")
    ELSE IF Truthy(Get(file_info, "mp3-320")) THEN Get(file_info, "mp3-320")
    ELSE IF Truthy(Get(file_info, "flac")) THEN Get(file_info, "flac")
    ELSE None

\* The `if file_info:` block of the track loop; None is BandcampTrack's
\* default stream_url
SelectStream(file_info) ==
    IF ~DictTruthy(file_info) THEN None
    ELSE IF Truthy(Get(file_info, "mp3-v0")) THEN Get(file_info, "mp3-v0")
    ELSE IF Truthy(Get(file_info, "mp3-320")) THEN Get(file_info, "mp3-320")
    ELSE IF Truthy(Get(file_info, "mp3-128")) THEN Get(file_info, "mp3-128")
    ELSE IF Truthy(Get(file_info, "flac")) THEN Get(file_info, "flac")
    ELSE None

\* An album reference is the list of its "/"-separated segments
AlbumRefs == {<<"moon songs">>, <<"artist-x", "album-y">>,
              <<"artist-x", "album-y", "bonus">>}
\* `"/" in album_id`
HasSlash(ref) == Len(ref) > 1
\* f"https://{artist_slug}.bandcamp.com/album/{album_slug}"
DirectUrl(ref) == <<"https", ref[1], "bandcamp.com", "album", ref[2]>>

\* What the search request of a resolution is answered with: a page with a
\* result of each kind, with no album, with no artist, with a first album row
\* that lacks its heading, with two albums; an error status; an exception
GoodRows(n) == [i \in 1..n |-> GoodShape]
PageOf(artists, albums, tracks) ==
    [k \in Kinds |-> Section(k, CASE k = "artist" -> artists
                                  [] k = "album"  -> albums
                                  [] k = "track"  -> tracks)]
ResolveAnswers ==
    {[status |-> "200", page |-> PageOf(GoodRows(1), GoodRows(1), GoodRows(1))],
     [status |-> "200", page |-> PageOf(GoodRows(1), <<>>, GoodRows(1))],
     [status |-> "200", page |-> PageOf(<<>>, GoodRows(1), GoodRows(1))],
     [status |-> "200",
      page |-> PageOf(<<>>, <<[GoodShape EXCEPT !.heading = FALSE], GoodShape>>, <<>>)],
     [status |-> "200", page |-> PageOf(GoodRows(2), GoodRows(2), <<>>)],
     [status |-> "500", page |-> NoSearchPage],
     [status |-> "raises", page |-> NoSearchPage]}
\* The call does not search
NoAnswer == [status |-> None, page |-> NoSearchPage]

\* What the fetch of the page can do
FetchOutcomes == {"200", "404", "raises"}
NoFetch == None

\* The fetched page, as far as get_album reads it: whether the title, artist
\* and art elements it dereferences are there, and their texts; the art
\* image; whether the data-tralbum payload is found and parses; the
\* payload's album_release_date and trackinfo.
PageWith(shape_ok, image_url, play_data, release, trackinfo) ==
    [shape_ok |-> shape_ok, album_name |-> "Album Y", artist_name |-> "Artist X",
     artist_id |-> "artist-x", image_url |-> image_url, play_data |-> play_data,
     release |-> release, trackinfo |-> trackinfo]
NoPage == PageWith(FALSE, None, "absent", Absent, <<>>)
AlbumPages ==
    {NoPage}
    \cup {PageWith(TRUE, image, play_data, Absent, <<>>) :
             image \in {None, "art.jpg"}, play_data \in {"absent", "malformed"}}
    \cup {PageWith(TRUE, image, "ok", Absent, trackinfo) :
             image \in {None, "art.jpg"}, trackinfo \in TrackLists}
    \cup {PageWith(TRUE, None, "ok", release, <<>>) : release \in {"1700000000", "soon"}}
SamplePages ==
    {NoPage, PageWith(TRUE, None, "malformed", Absent, <<>>),
     PageWith(TRUE, "art.jpg", "ok", Absent, <<>>)}

\* datetime.fromtimestamp(...).date().isoformat() on a host in UTC; a value
\* that is not a number raises inside the inner try, which passes
ReleaseDate(release) == IF release = "1700000000" THEN "2023-11-14" ELSE None

AssembleTrack_payloadNumber(ref, album_url, idx, track_info, page) ==
    [track_id |-> [album_id |-> ref, slug |-> Slug(TitleOf(track_info))],
     title |-> TitleOf(track_info),
     artist_name |-> page.artist_name,
     artist_id |-> page.artist_id,
     album_id |-> ref,
     album_title |-> page.album_name,
     url |-> [album_url |-> album_url, slug |-> Slug(TitleOf(track_info))],
     track_number |-> track_info.track_num,
     duration |-> DurationMs(track_info.duration),
     image_url |-> page.image_url,
     stream_url |-> SelectStream(track_info.file)]

\* BandcampTrack(...) of the track loop, for the idx-th entry of trackinfo,
\* with its image and stream URL
AssembleTrack(ref, album_url, idx, track_info, page) ==
    [track_id |-> [album_id |-> ref, slug |-> Slug(TitleOf(track_info))],
     title |-> TitleOf(track_info),
     artist_name |-> page.artist_name,
     artist_id |-> page.artist_id,
     album_id |-> ref,
     album_title |-> page.album_name,
     url |-> [album_url |-> album_url, slug |-> Slug(TitleOf(track_info))],
     track_number |-> idx,
     duration |-> DurationMs(track_info.duration),
     image_url |-> page.image_url,
     stream_url |-> SelectStream(track_info.file)]

\* `for idx, track_info in enumerate(tracks_info, 1): ... album.tracks.append(track)`
AssembleTracks(ref, album_url, page) ==
    [idx \in 1..Len(page.trackinfo) |->
        AssembleTrack(ref, album_url, idx, page.trackinfo[idx], page)]

AssembleAlbum_personal(ref, album_url, page) ==
    [album_id |-> ref,
     title |-> page.album_name,
     artist_name |-> page.artist_name,
     artist_id |-> page.artist_id,
     url |-> album_url,
     image_url |-> page.image_url,
     release_date |-> IF page.play_data = "ok" THEN ReleaseDate(page.release) ELSE None,
     tracks |-> IF page.play_data = "ok" /\ ~user_identity.is_authenticated
                THEN AssembleTracks(ref, album_url, page)
                ELSE <<>>]

\* BandcampAlbum(...) with its image, release date and tracks
AssembleAlbum(ref, album_url, page) ==
    [album_id |-> ref,
     title |-> page.album_name,
     artist_name |-> page.artist_name,
     artist_id |-> page.artist_id,
     url |-> album_url,
     image_url |-> page.image_url,
     release_date |-> IF page.play_data = "ok" THEN ReleaseDate(page.release) ELSE None,
     tracks |-> IF page.play_data = "ok"
                THEN AssembleTracks(ref, album_url, page)
                ELSE <<>>]

\* Parsing the page raises: an element get_album dereferences is not there,
\* json.loads fails, or a duration is null
ParseRaises(page) ==
    \/ ~page.shape_ok
    \/ page.play_data = "malformed"
    \/ page.play_data = "ok" /\ \E i \in 1..Len(page.trackinfo) :
                                    DurationRaises(page.trackinfo[i].duration)

\* The value get_album returns once the page is fetched: None (the empty
\* sequence) when parsing raises, else the album
ParsePage(ref, album_url, page) ==
    IF ParseRaises(page) THEN <<>>
    ELSE <<AssembleAlbum(ref, album_url, page)>>

AlbumUrl_anyKind(ref, answer) ==
    IF HasSlash(ref) THEN <<DirectUrl(ref)>>
    ELSE LET found == api_search(answer, 1)
             all == found["artist"] \o found["album"] \o found["track"]
         IN IF all # <<>> THEN <<all[1].url>> ELSE <<>>

\* The URL get_album resolves the reference to, if any
\* (`artists, albums, _ = await self.search(album_id, limit=1)`)
AlbumUrl(ref, answer) ==
    IF HasSlash(ref) THEN <<DirectUrl(ref)>>
    ELSE LET albums == api_search(answer, 1)["album"]
         IN IF albums # <<>> THEN <<albums[1].url>> ELSE <<>>

AlbumRequests_searchFirst(ref, answer) ==
    <<[kind |-> "search", target |-> ref]>>
    \o (IF AlbumUrl(ref, answer) # <<>>
        THEN <<[kind |-> "fetch", target |-> AlbumUrl(ref, answer)[1]]>>
        ELSE <<>>)

\* The network requests of one call of get_album, in the order it issues them
AlbumRequests(ref, answer) ==
    (IF HasSlash(ref) THEN <<>> ELSE <<[kind |-> "search", target |-> ref]>>)
    \o (IF AlbumUrl(ref, answer) # <<>>
        THEN <<[kind |-> "fetch", target |-> AlbumUrl(ref, answer)[1]]>>
        ELSE <<>>)

\* The value get_album(album_id) returns: <<>> is None
AlbumValue(ref, answer, fetch, page) ==
    IF AlbumUrl(ref, answer) = <<>> THEN <<>>
    ELSE IF fetch # "200" THEN <<>>
    ELSE ParsePage(ref, AlbumUrl(ref, answer)[1], page)

\* The calls of the model: every reference with every answer of the server
\* on a few pages, and one reference on every page.  The answers a call never
\* asks for are fixed.
AlbumCalls ==
    {[ref |-> ref, answer |-> answer, fetch |-> fetch, page |-> page] :
        ref \in {r \in AlbumRefs : HasSlash(r)}, answer \in {NoAnswer},
        fetch \in {"404", "raises"}, page \in {NoPage}}
    \cup {[ref |-> ref, answer |-> answer, fetch |-> fetch, page |-> page] :
        ref \in {r \in AlbumRefs : HasSlash(r)}, answer \in {NoAnswer},
        fetch \in {"200"}, page \in SamplePages}
    \cup {[ref |-> ref, answer |-> answer, fetch |-> NoFetch, page |-> NoPage] :
        ref \in {r \in AlbumRefs : ~HasSlash(r)},
        answer \in {a \in ResolveAnswers : AlbumUrl(<<"moon songs">>, a) = <<>>}}
    \cup {[ref |-> ref, answer |-> answer, fetch |-> fetch, page |-> page] :
        ref \in {r \in AlbumRefs : ~HasSlash(r)},
        answer \in {a \in ResolveAnswers : AlbumUrl(<<"moon songs">>, a) # <<>>},
        fetch \in {"404", "raises"}, page \in {NoPage}}
    \cup {[ref |-> ref, answer |-> answer, fetch |-> fetch, page |-> page] :
        ref \in {r \in AlbumRefs : ~HasSlash(r)},
        answer \in {a \in ResolveAnswers : AlbumUrl(<<"moon songs">>, a) # <<>>},
        fetch \in {"200"}, page \in SamplePages}
    \cup {[ref |-> <<"artist-x", "album-y">>, answer |-> NoAnswer, fetch |-> "200",
           page |-> page] : page \in AlbumPages}

\* One call of get_album(album_id)
GetAlbum(ref, answer, fetch, page) ==
    /\ album_call = <<>>
    /\ album_call' = <<[op |-> "get_album", id |-> ref, answer |-> answer,
                        fetch |-> fetch, page |-> page, url |-> AlbumUrl(ref, answer),
                        swapped |-> FALSE]>>
    /\ album_requests' = AlbumRequests(ref, answer)
    /\ album_result' = AlbumValue(ref, answer, fetch, page)
    /\ UNCHANGED <<album_again, album_failed>>
    /\ UNCHANGED <<user_identity, authVars, pageVars, helpVars, provVars, routeVars>>

\* get_album is called with some reference, and the server answers somehow
GetAlbumAny ==
    /\ album_call = <<>>
    /\ \E call \in AlbumCalls : GetAlbum(call.ref, call.answer, call.fetch, call.page)

\* get_album is called again with the same reference, and the server answers
\* as it did
GetAlbumAgain ==
    /\ album_call # <<>>
    /\ album_call[1].op = "get_album"
    /\ album_again = <<>>
    /\ album_again' = <<AlbumValue(album_call[1].id, album_call[1].answer,
                                   album_call[1].fetch, album_call[1].page)>>
    /\ UNCHANGED <<album_call, album_result, album_requests, album_failed>>
    /\ UNCHANGED <<user_identity, authVars, pageVars, helpVars, provVars, routeVars>>

(***************************************************************************)
(* get_artist and get_artist_albums (api.py)                               *)
(***************************************************************************)
\* An artist reference, as its "/"-separated segments; "artist.x" has a dot
ArtistRefs == {<<"artist-x">>, <<"artist.x">>, <<"artist.x", "music">>}
DottedSegments == {"artist.x"}
\* `"." in artist_id`
HasDot(ref) == \E i \in 1..Len(ref) : ref[i] \in DottedSegments
\* `"." in artist_id and "/" not in artist_id`
IsHandle(ref) == HasDot(ref) /\ ~HasSlash(ref)
\* f"https://{artist_id}.bandcamp.com"
ArtistDirectUrl(ref) == <<"https", ref[1], "bandcamp.com">>

\* The URL get_artist and get_artist_albums resolve the reference to, if any
\* (`artists, _, _ = await self.search(artist_id, limit=1)`)
ArtistUrl(ref, answer) ==
    IF IsHandle(ref) THEN <<ArtistDirectUrl(ref)>>
    ELSE LET artists == api_search(answer, 1)["artist"]
         IN IF artists # <<>> THEN <<artists[1].url>> ELSE <<>>

\* The network requests of one call, in the order it issues them
ArtistRequests(ref, answer) ==
    (IF IsHandle(ref) THEN <<>> ELSE <<[kind |-> "search", target |-> ref]>>)
    \o (IF ArtistUrl(ref, answer) # <<>>
        THEN <<[kind |-> "fetch", target |-> ArtistUrl(ref, answer)[1]]>>
        ELSE <<>>)

\* An li.music-grid-item of the artist page: its p.title, its link, whether
\* the href is absolute, its div.art and the src of the image
GridShapes ==
    {[title |-> TRUE,  link |-> TRUE,  absolute |-> FALSE, art |-> TRUE,  img |-> "cover.jpg"],
     [title |-> TRUE,  link |-> TRUE,  absolute |-> TRUE,  art |-> TRUE,  img |-> None],
     [title |-> FALSE, link |-> TRUE,  absolute |-> FALSE, art |-> TRUE,  img |-> None],
     [title |-> TRUE,  link |-> FALSE, absolute |-> FALSE, art |-> TRUE,  img |-> None],
     [title |-> TRUE,  link |-> TRUE,  absolute |-> FALSE, art |-> FALSE, img |-> None]}
GridLists == UNION {[1..n -> GridShapes] : n \in 0..MaxRows}

\* The artist page, as far as the two operations read it: the name element,
\* the bio container, the image, the bio and location texts, the album grid
ArtistPageWith(has_name, has_bio_box, image_url, bio, location, grid) ==
    [has_name |-> has_name, has_bio_box |-> has_bio_box, name |-> "Artist X",
     image_url |-> image_url, bio |-> bio, location |-> location, grid |-> grid]
NoArtistPage == ArtistPageWith(FALSE, FALSE, None, None, None, <<>>)
ArtistPages ==
    {ArtistPageWith(has_name, has_bio_box, None, None, None, <<>>) :
        has_name \in BOOLEAN, has_bio_box \in BOOLEAN}
    \cup {ArtistPageWith(TRUE, TRUE, image_url, bio, location, <<>>) :
             image_url \in {None, "band.jpg"}, bio \in {None, "A band."},
             location \in {None, "Leeds"}}
    \cup {ArtistPageWith(TRUE, has_bio_box, None, None, None, grid) :
             has_bio_box \in BOOLEAN, grid \in GridLists}
SampleArtistPages ==
    {NoArtistPage,
     ArtistPageWith(TRUE, TRUE, "band.jpg", None, "Leeds", <<>>),
     ArtistPageWith(TRUE, TRUE, None, None, None,
                    <<[title |-> TRUE, link |-> TRUE, absolute |-> FALSE, art |-> TRUE,
                       img |-> "cover.jpg"]>>)}

\* BandcampArtist(...) with image, bio and location; raises (None) when the
\* name element or the bio container is not there
ParseArtist(ref, artist_url, page) ==
    IF ~page.has_name \/ ~page.has_bio_box THEN <<>>
    ELSE <<[artist_id |-> ref, name |-> page.name, url |-> artist_url,
            image_url |-> page.image_url, bio |-> page.bio,
            location |-> page.location]>>

\* The value get_artist(artist_id) returns: <<>> is None
ArtistValue(ref, answer, fetch, page) ==
    IF ArtistUrl(ref, answer) = <<>> THEN <<>>
    ELSE IF fetch # "200" THEN <<>>
    ELSE ParseArtist(ref, ArtistUrl(ref, answer)[1], page)

\* The grid item is appended: it has a title (else `continue`), and its
\* link and div.art are there (else the row's try block raises and it is
\* skipped)
GridRowKept(row) == row.title /\ row.link /\ row.art

\* BandcampAlbum(...) of the i-th grid item, with
\* `album_url if album_url.startswith("http") else f"{artist_url}{album_url}"`
GridAlbum(ref, artist_url, i, row, page) ==
    [album_id |-> ToString(i),
     artist_name |-> page.name,
     artist_id |-> ref,
     url |-> IF row.absolute
             THEN <<"https", "artist-x", "bandcamp.com", "album", ToString(i)>>
             ELSE artist_url \o <<"album", ToString(i)>>,
     image_url |-> row.img]

\* The `for album_element in album_elements` loop
ParseGrid(ref, artist_url, page) ==
    LET rows == [i \in 1..Len(page.grid) |-> [i |-> i, row |-> page.grid[i]]]
        Kept(r) == GridRowKept(r.row)
        kept == SelectSeq(rows, Kept)
    IN [j \in 1..Len(kept) |-> GridAlbum(ref, artist_url, kept[j].i, kept[j].row, page)]

\* The list get_artist_albums(artist_id) returns
ArtistAlbumsValue(ref, answer, fetch, page) ==
    IF ArtistUrl(ref, answer) = <<>> THEN <<>>
    ELSE IF fetch # "200" THEN <<>>
    ELSE IF ~page.has_name THEN <<>>
    ELSE ParseGrid(ref, ArtistUrl(ref, answer)[1], page)

\* The calls of the model, as for get_album
ArtistCalls ==
    {[ref |-> ref, answer |-> NoAnswer, fetch |-> fetch, page |-> NoArtistPage] :
        ref \in {r \in ArtistRefs : IsHandle(r)}, fetch \in {"404", "raises"}}
    \cup {[ref |-> ref, answer |-> NoAnswer, fetch |-> "200", page |-> page] :
        ref \in {r \in ArtistRefs : IsHandle(r)}, page \in ArtistPages}
    \cup {[ref |-> ref, answer |-> answer, fetch |-> NoFetch, page |-> NoArtistPage] :
        ref \in {r \in ArtistRefs : ~IsHandle(r)},
        answer \in {a \in ResolveAnswers : ArtistUrl(<<"artist-x">>, a) = <<>>}}
    \cup {[ref |-> ref, answer |-> answer, fetch |-> fetch, page |-> NoArtistPage] :
        ref \in {r \in ArtistRefs : ~IsHandle(r)},
        answer \in {a \in ResolveAnswers : ArtistUrl(<<"artist-x">>, a) # <<>>},
        fetch \in {"404", "raises"}}
    \cup {[ref |-> ref, answer |-> answer, fetch |-> "200", page |-> page] :
        ref \in {r \in ArtistRefs : ~IsHandle(r)},
        answer \in {a \in ResolveAnswers : ArtistUrl(<<"artist-x">>, a) # <<>>},
        page \in SampleArtistPages}

\* One call of get_artist(artist_id)
GetArtist ==
    /\ album_call = <<>>
    /\ \E call \in ArtistCalls :
          /\ album_call' = <<[op |-> "get_artist", id |-> call.ref, answer |-> call.answer,
                              fetch |-> call.fetch, page |-> call.page,
                              url |-> ArtistUrl(call.ref, call.answer)]>>
          /\ album_requests' = ArtistRequests(call.ref, call.answer)
          /\ album_result' = ArtistValue(call.ref, call.answer, call.fetch, call.page)
    /\ UNCHANGED <<album_again, album_failed>>
    /\ UNCHANGED <<user_identity, authVars, pageVars, helpVars, provVars, routeVars>>

\* One call of get_artist_albums(artist_id); album_result holds the list
GetArtistAlbums ==
    /\ album_call = <<>>
    /\ \E call \in ArtistCalls :
          /\ album_call' = <<[op |-> "get_artist_albums", id |-> call.ref,
                              answer |-> call.answer, fetch |-> call.fetch,
                              page |-> call.page,
                              url |-> ArtistUrl(call.ref, call.answer)]>>
          /\ album_requests' = ArtistRequests(call.ref, call.answer)
          /\ album_result' =
                 <<ArtistAlbumsValue(call.ref, call.answer, call.fetch, call.page)>>
    /\ UNCHANGED <<album_again, album_failed>>
    /\ UNCHANGED <<user_identity, authVars, pageVars, helpVars, provVars, routeVars>>

\* get_album or get_artist returned None
ResolutionFailed ==
    /\ album_call # <<>>
    /\ album_call[1].op \in {"get_album", "get_artist"}
    /\ album_result = <<>>

\* Why a call that returned None did: the search answered and had no result
\* of the kind; a request was answered with an error status or raised; the
\* page came with status 200 and could not be read
Cause(call) ==
    IF call.url = <<>>
    THEN IF call.answer.status = "200" THEN "NotFound" ELSE "TransportError"
    ELSE IF call.fetch # "200" THEN "TransportError" ELSE "ParseFailure"

\* The caller has the result; the client is ready for the next call
AlbumReturned ==
    /\ album_call # <<>>
    /\ album_call' = <<>>
    /\ album_result' = <<>>
    /\ album_requests' = <<>>
    /\ album_again' = <<>>
    /\ UNCHANGED album_failed
    /\ UNCHANGED <<user_identity, authVars, pageVars, helpVars, provVars, routeVars>>

\* The caller has a None, and keeps it with the reason of the failure
FailureKept ==
    /\ ResolutionFailed
    /\ album_failed' = <<[cause |-> Cause(album_call[1]), value |-> album_result]>>
    /\ album_call' = <<>>
    /\ album_result' = <<>>
    /\ album_requests' = <<>>
    /\ album_again' = <<>>
    /\ UNCHANGED <<user_identity, authVars, pageVars, helpVars, provVars, routeVars>>

NextAlbum ==
    \/ GetAlbumAny
    \/ GetArtist
    \/ GetArtistAlbums
    \/ AlbumReturned
    \/ FailureKept

SpecAlbum == Init /\ [][NextAlbum]_vars

\* get_album called twice, with other operations of the client in between:
\* of the client's state they change user_identity (and the locals of their
\* own calls)
IdentitySwapped(data) ==
    /\ album_call # <<>>
    /\ album_again = <<>>
    /\ DataTruthy(data)
    /\ user_identity' = from_api_data(data)
    /\ album_call' = <<[album_call[1] EXCEPT !.swapped = TRUE]>>
    /\ UNCHANGED <<album_result, album_requests, album_again, album_failed>>
    /\ UNCHANGED <<authVars, pageVars, helpVars, provVars, routeVars>>

NextAlbumTwice ==
    \/ GetAlbumAny
    \/ \E data \in UserDatas : IdentitySwapped(data)
    \/ GetAlbumAgain
    \/ AlbumReturned

SpecAlbumTwice == Init /\ [][NextAlbumTwice]_vars

(***************************************************************************)
(* Claims about the stream selection of get_album                          *)
(***************************************************************************)
\* The album the last call returned, and the trackinfo it was assembled from
Returned == album_call # <<>> /\ album_call[1].op = "get_album" /\ album_result # <<>>
Tracks == album_result[1].tracks
TrackInfo == album_call[1].page.trackinfo

\* The positions of Preference that satisfy a test
Positions(Test(_)) == {i \in 1..Len(Preference) : Test(Preference[i])}
Lowest(S) == CHOOSE i \in S : \A j \in S : i <= j

\* The value of the first present key in the fixed order, None without one
FirstPresent(m) ==
    LET Is(k) == HasKey(m, k)
    IN IF Positions(Is) = {} THEN None ELSE Get(m, Preference[Lowest(Positions(Is))])

\* The value of the first key in the fixed order that has a non-empty value
FirstUsable(m) ==
    LET Is(k) == Truthy(Get(m, k))
    IN IF Positions(Is) = {} THEN None ELSE Get(m, Preference[Lowest(Positions(Is))])

\* C9 (as claimed): the stream URL of every assembled track is the value of
\* the first present key in the order mp3-v0, mp3-320, mp3-128, flac, and
\* stream_url stays unset when none of these keys is present.
C9_FirstPresentKeyWins ==
    Returned =>
        \A i \in 1..Len(Tracks) : Tracks[i].stream_url = FirstPresent(TrackInfo[i].file)

\* C9 (amended): the stream URL of every assembled track is the value of the
\* first key in the order mp3-v0, mp3-320, mp3-128, flac that is present with
\* a non-empty value; stream_url stays unset when there is no such key.
C9_FirstUsableKeyWins ==
    Returned =>
        /\ Len(Tracks) = Len(TrackInfo)
        /\ \A i \in 1..Len(Tracks) : Tracks[i].stream_url = FirstUsable(TrackInfo[i].file)

\* {mp3-320: A, mp3-128: B} gave A, and {flac: C} gave C
C9_Witness ==
    /\ Returned
    /\ Len(Tracks) = 2
    /\ \A k \in FormatKeys : HasKey(TrackInfo[1].file, k) <=> k \in {"mp3-320", "mp3-128"}
    /\ Tracks[1].stream_url = UrlOf("mp3-320")
    /\ \A k \in FormatKeys : HasKey(TrackInfo[2].file, k) <=> k = "flac"
    /\ Tracks[2].stream_url = UrlOf("flac")

(***************************************************************************)
(* Claims about the assembly of the album and the resolution               *)
(***************************************************************************)
\* C11: in every album get_album returns, the i-th track has track_number i
\* and is the track of the i-th entry of the payload's trackinfo list: no
\* entry is dropped, duplicated or moved, whatever numbering the payload has.
C11_TracksFollowPayloadOrder ==
    Returned =>
        /\ Len(Tracks) = Len(TrackInfo)
        /\ \A i \in 1..Len(Tracks) :
               /\ Tracks[i].track_number = i
               /\ Tracks[i].title = TitleOf(TrackInfo[i])
               /\ Tracks[i].stream_url = SelectStream(TrackInfo[i].file)

\* Three entries the payload numbers 2, 1, 3 became tracks 1, 2, 3 in the
\* payload's order
C11_Witness ==
    /\ Returned
    /\ Len(Tracks) = 3
    /\ <<TrackInfo[1].track_num, TrackInfo[2].track_num, TrackInfo[3].track_num>> = <<2, 1, 3>>
    /\ <<Tracks[1].track_number, Tracks[2].track_number, Tracks[3].track_number>> = <<1, 2, 3>>
    /\ <<Tracks[1].title, Tracks[2].title, Tracks[3].title>> = <<"Blue Sky", "Intro", "Outro">>

\* s * 1000 truncated toward zero, for the decimal s of n millionths
TruncatedMs(d) == IF d.kind = "absent" THEN 0 ELSE d.micro \div 1000

\* C12: the duration of every assembled track is its payload duration s
\* (seconds, s >= 0) times 1000, truncated toward zero, and 0 without a
\* duration field.
C12_DurationIsTruncatedMs ==
    Returned =>
        \A i \in 1..Len(Tracks) : Tracks[i].duration = TruncatedMs(TrackInfo[i].duration)

AlbumCalled == album_call # <<>> /\ album_call[1].op = "get_album"

\* C14: for a reference with a "/", the only request of get_album is the
\* fetch of the URL built from its first two segments; a search request is
\* issued only for a reference without "/", and before any fetch.
C14_DirectUrlBeforeSearch ==
    AlbumCalled =>
        /\ HasSlash(album_call[1].id) =>
               album_requests = <<[kind |-> "fetch",
                                   target |-> <<"https", album_call[1].id[1], "bandcamp.com",
                                                "album", album_call[1].id[2]>>]>>
        /\ \A i \in 1..Len(album_requests) :
               album_requests[i].kind = "search" =>
                   ~HasSlash(album_call[1].id) /\ i = 1

\* "artist-x/album-y/bonus" was fetched from artist-x's album-y page with no
\* search, and gave an album
C14_Witness ==
    /\ Returned
    /\ album_call[1].id = <<"artist-x", "album-y", "bonus">>
    /\ Len(album_requests) = 1
    /\ album_requests[1].kind = "fetch"
    /\ album_requests[1].target = <<"https", "artist-x", "bandcamp.com", "album", "album-y">>

\* The kind of result an operation resolves its reference to
RequiredKind(op) == IF op = "get_album" THEN "album" ELSE "artist"
\* What the search of the call found of that kind
FoundOfKind == api_search(album_call[1].answer, 1)[RequiredKind(album_call[1].op)]
Fetches == {i \in 1..Len(album_requests) : album_requests[i].kind = "fetch"}
\* get_album / get_artist returned None, get_artist_albums returned []
CameBackEmpty ==
    IF album_call[1].op = "get_artist_albums" THEN album_result = <<<<>>>>
    ELSE album_result = <<>>

\* C15: when the resolution searches and the search has no result of the
\* required kind, the call fails and fetches no page; otherwise the page it
\* fetches is that of the first result of the required kind.
C15_FetchesFirstOfKind ==
    (album_call # <<>> /\ album_call[1].answer # NoAnswer) =>
        IF FoundOfKind = <<>>
        THEN Fetches = {} /\ CameBackEmpty
        ELSE \A i \in Fetches : album_requests[i].target = FoundOfKind[1].url

\* The search found an artist, an album and a track; get_album fetched the
\* album's page and returned the album
C15_Witness ==
    /\ Returned
    /\ album_call[1].answer # NoAnswer
    /\ \A k \in Kinds : album_call[1].answer.page[k] # <<>>
    /\ album_requests = <<[kind |-> "search", target |-> <<"moon songs">>],
                          [kind |-> "fetch", target |-> RowUrl("album", 1)]>>

\* C16: two failed resolutions with different causes (NotFound, ParseFailure,
\* TransportError) never return the same value.
C16_FailuresTellTheirCause ==
    (/\ ResolutionFailed
     /\ album_failed # <<>>
     /\ album_failed[1].cause # Cause(album_call[1])) =>
        album_failed[1].value # album_result

(***************************************************************************)
(* BandcampAPI (helpers.py): get_stream, get_track and get_album, the      *)
(* operations BandcampProvider delegates to.  One action is one call on a  *)
(* page the server returns.                                                *)
(***************************************************************************)
\* A fetched page, as far as the three operations read it: the h2.trackTitle
\* element, the link to the artist's /music page, whether the artist page it
\* points to can be read, and the trackinfo list the regular expression
\* finds (matched = FALSE: no match; a match has at least one entry).
HelperPages ==
    [has_title : BOOLEAN, has_artist_link : BOOLEAN, artist_ok : BOOLEAN,
     matched : {FALSE}, trackinfo : {<<>>}]
    \cup [has_title : BOOLEAN, has_artist_link : BOOLEAN, artist_ok : BOOLEAN,
          matched : {TRUE}, trackinfo : TrackLists \ {<<>>}]

\* track["file"]["mp3-128"] raises KeyError when the key is not there
Mp3128Raises(track) == ~HasKey(track.file, "mp3-128")
\* ... and is the value under the key otherwise
Mp3128(track) == track.file["mp3-128"]

Raised == [raised |-> TRUE, media |-> <<>>]
Value(media) == [raised |-> FALSE, media |-> media]

\* BandcampAPI.get_stream(url)
get_stream(page) ==
    IF ~page.matched THEN Raised                       \* raise ValueError("No stream found")
    ELSE IF Mp3128Raises(page.trackinfo[1]) THEN Raised
    ELSE Value(<<Mp3128(page.trackinfo[1])>>)

\* BandcampAPI.get_artist(url) raises when the artist page has no title
get_artist_raises(page) == ~page.artist_ok

\* BandcampAPI.get_track(url)
get_track(page) ==
    IF ~page.has_title THEN Raised                     \* None.get_text
    ELSE IF page.has_artist_link /\ get_artist_raises(page) THEN Raised
    ELSE get_stream(page)

\* BandcampAPI.get_album(url)
get_album(page) ==
    IF ~page.has_title THEN Raised                     \* None.get_text
    ELSE IF ~page.has_artist_link THEN Raised          \* None["href"]
    ELSE IF get_artist_raises(page) THEN Raised
    ELSE IF ~page.matched THEN Value(<<>>)
    ELSE IF \E i \in 1..Len(page.trackinfo) : Mp3128Raises(page.trackinfo[i]) THEN Raised
    ELSE Value([i \in 1..Len(page.trackinfo) |-> Mp3128(page.trackinfo[i])])

HelperCall(op, page, result) ==
    /\ h_call = <<>>
    /\ h_call' = <<[op |-> op, page |-> page]>>
    /\ h_result' = <<result>>
    /\ UNCHANGED <<user_identity, authVars, pageVars, albumVars, provVars, routeVars>>

HelperIdle == h_call = <<>>

GetStreamCall ==
    HelperIdle /\ \E page \in HelperPages : HelperCall("get_stream", page, get_stream(page))
GetTrackCall ==
    HelperIdle /\ \E page \in HelperPages : HelperCall("get_track", page, get_track(page))
GetAlbumCall ==
    HelperIdle /\ \E page \in HelperPages : HelperCall("get_album", page, get_album(page))

\* The caller has the result (or the exception)
HelperReturned ==
    /\ h_call # <<>>
    /\ h_call' = <<>>
    /\ h_result' = <<>>
    /\ UNCHANGED <<user_identity, authVars, pageVars, albumVars, provVars, routeVars>>

NextHelpers ==
    \/ GetStreamCall
    \/ GetTrackCall
    \/ GetAlbumCall
    \/ HelperReturned

SpecHelpers == Init /\ [][NextHelpers]_vars

(***************************************************************************)
(* Claims about the provider's stream, track and album operations          *)
(***************************************************************************)
\* A page with everything the operation reads except, possibly, a playable
\* encoding: title, artist link, readable artist page, a trackinfo list
ReadablePage(page) ==
    page.has_title /\ page.has_artist_link /\ page.artist_ok /\ page.matched

\* C10: get_stream, get_track and get_album do not fail on a track whose
\* encoding map has no playable key or only keys other than mp3-128: the
\* missing stream is returned as an unset stream, not raised.
C10_NoStreamIsNotAnError ==
    (h_call # <<>> /\ ReadablePage(h_call[1].page)) => ~h_result[1].raised

(***************************************************************************)
(* The instance control surface (bandcamp_instance_routes.py): the Flask   *)
(* routes over INSTANCE_CONFIGS.  One action is one request; route_call    *)
(* keeps the request with the registry it found, route_response the status *)
(* of the response (500 when the view raises).                             *)
(***************************************************************************)
\* request.json: the empty dict, or a dict with an auth_token and maybe an
\* instance_id
EmptyBody == [empty |-> TRUE, instance_id |-> Absent, auth_token |-> None]
Bodies ==
    {EmptyBody}
    \cup [empty : {FALSE}, instance_id : InstanceIds \cup {Absent},
          auth_token : {None, "cookie"}]
AuthTypes == {"cookies", "credentials", "token"}

\* The request is answered
Responded(op, id, data, auth_type, status) ==
    /\ route_call' = <<[op |-> op, id |-> id, data |-> data, auth_type |-> auth_type,
                        before |-> INSTANCE_CONFIGS]>>
    /\ route_response' = status
    /\ UNCHANGED <<user_identity, authVars, pageVars, albumVars, helpVars, provVars>>

\* GET /instances
get_instances ==
    /\ Responded("get_instances", Absent, EmptyBody, None, "200")
    /\ UNCHANGED INSTANCE_CONFIGS

\* POST /instances: data["instance_id"] raises KeyError without the key
add_instance(data) ==
    IF data.instance_id = Absent
    THEN /\ Responded("add_instance", Absent, data, None, "500")
         /\ UNCHANGED INSTANCE_CONFIGS
    ELSE /\ Responded("add_instance", data.instance_id, data, None, "201")
         /\ INSTANCE_CONFIGS' = [INSTANCE_CONFIGS EXCEPT ![data.instance_id] = <<data>>]

\* PUT /instances/<instance_id>
update_instance(instance_id, data) ==
    /\ Responded("update_instance", instance_id, data, None, "200")
    /\ INSTANCE_CONFIGS' = [INSTANCE_CONFIGS EXCEPT ![instance_id] = <<data>>]

\* DELETE /instances/<instance_id>
delete_instance(instance_id) ==
    /\ Responded("delete_instance", instance_id, EmptyBody, None, "200")
    /\ INSTANCE_CONFIGS' = [INSTANCE_CONFIGS EXCEPT ![instance_id] = <<>>]

\* `if not instance:` is true of a missing key and of a stored empty dict
NoInstance(instance) == instance = <<>> \/ instance[1].empty

\* BandcampApiClient() is called without the domain and instance_id its
\* __init__ requires: TypeError
NewClientRaises == TRUE

\* The status test_authentication answers with.  authenticate_with_* are
\* coroutine functions called without await: `success` is a coroutine
\* object, which is true.
TestStatus(instance, auth_type) ==
    IF NoInstance(instance) THEN "404"
    ELSE IF NewClientRaises THEN "500"
    ELSE IF auth_type \in {"cookies", "credentials"} THEN "200"
    ELSE "400"

\* POST /instances/<instance_id>/auth/test
test_authentication(instance_id, auth_type) ==
    /\ Responded("test_authentication", instance_id, EmptyBody, auth_type,
                 TestStatus(INSTANCE_CONFIGS[instance_id], auth_type))
    /\ UNCHANGED INSTANCE_CONFIGS

NextRoutes ==
    \/ get_instances
    \/ \E data \in Bodies : add_instance(data)
    \/ \E id \in InstanceIds, data \in Bodies : update_instance(id, data)
    \/ \E id \in InstanceIds : delete_instance(id)
    \/ \E id \in InstanceIds, auth_type \in AuthTypes : test_authentication(id, auth_type)

SpecRoutes == Init /\ [][NextRoutes]_vars

(***************************************************************************)
(* Claims about the instance control surface                               *)
(***************************************************************************)
\* Every stored config is under the key equal to its own instance_id
KeyedById ==
    \A k \in InstanceIds :
        INSTANCE_CONFIGS[k] # <<>> => INSTANCE_CONFIGS[k][1].instance_id = k

\* The last request left the configs of the other ids as they were
OthersKept ==
    route_call # <<>> =>
        \A k \in InstanceIds \ {route_call[1].id} :
            INSTANCE_CONFIGS[k] = route_call[1].before[k]

\* A test of authentication left the registry as it was
TestKeepsRegistry ==
    (route_call # <<>> /\ route_call[1].op = "test_authentication") =>
        INSTANCE_CONFIGS = route_call[1].before

\* A test of authentication answers 404 for an id without config, and
\* otherwise success (200) or failure (401)
TestAnswers ==
    (route_call # <<>> /\ route_call[1].op = "test_authentication") =>
        IF route_call[1].before[route_call[1].id] = <<>>
        THEN route_response = "404"
        ELSE route_response \in {"200", "401"}

\* C24: after any sequence of add, update, delete and test-authentication
\* requests, every stored config is under the key equal to its own
\* instance_id; a request about one id leaves the configs of the other ids
\* unchanged; and a test of authentication never changes the registry and
\* answers 404 for an unknown id and success or failure otherwise.
C24_RegistryKeyedById ==
    /\ KeyedById
    /\ OthersKept
    /\ TestKeepsRegistry
    /\ TestAnswers

====
